---- MODULE Spec2Model ----
(***************************************************************************)
(* Model of the AVM2 QName builtin (core/src/avm2/globals/q_name.rs):      *)
(* call_handler, init, get_local_name, get_uri and to_string, acting on a  *)
(* heap of QName objects.                                                  *)
(***************************************************************************)
EXTENDS Integers, Sequences, FiniteSets

\* Number of QName objects the heap may hold.
MaxObjs == 2

(***************************************************************************)
(* Namespaces and version tags.                                            *)
(***************************************************************************)
AllVersions == "AllVersions"
root_api_version == "RootVersion"
OtherVersion == "OtherVersion"

\* Option<Namespace>::None
NoNamespace == [kind |-> "None", uri |-> "", version |-> ""]

\* Namespace::package(uri, api_version, ..)
package(u, v) == [kind |-> "Package", uri |-> u, version |-> v]

\* activation.avm2().find_public_namespace()
find_public_namespace == package("", root_api_version)

(***************************************************************************)
(* Option<AvmString>                                                       *)
(***************************************************************************)
NoString == [some |-> FALSE, s |-> ""]
SomeString(str) == [some |-> TRUE, s |-> str]

(***************************************************************************)
(* Runtime values.  Every value is a record of the same shape:             *)
(*   tag    the variant of Value / Object                                  *)
(*   s      the string of a String, or what a script object's toString     *)
(*          returns                                                        *)
(*   throws the script error the object's toString raises ("" for none)    *)
(*   ns     the namespace a Namespace object wraps                         *)
(*   id     the heap address of a QName object                             *)
(***************************************************************************)
NoError == ""

MkValue(t, str, e, n, i) == [tag |-> t, s |-> str, throws |-> e, ns |-> n, id |-> i]

Undefined == MkValue("Undefined", "", NoError, NoNamespace, 0)
Null == MkValue("Null", "", NoError, NoNamespace, 0)
StringValue(str) == MkValue("String", str, NoError, NoNamespace, 0)
ScriptObject(str) == MkValue("Object", str, NoError, NoNamespace, 0)
ThrowingObject(e) == MkValue("Object", "", e, NoNamespace, 0)
NamespaceObject(n) == MkValue("Namespace", "", NoError, n, 0)
QNameObject(i) == MkValue("QName", "", NoError, NoNamespace, i)
\* "no value": what an operation that failed returns
NoValue == MkValue("None", "", NoError, NoNamespace, 0)

(***************************************************************************)
(* The QName object: its name (a Multiname) on the heap.                   *)
(***************************************************************************)
\* q_name_allocator: a fresh instance, nothing written yet
q_name_allocator == [local_name |-> NoString, namespace |-> NoNamespace, is_qname |-> FALSE]

\* QNameObject::name
name(h, i) == h[i]

\* QNameObject::local_name: the stored string, "*" for the any-name
local_name(h, i) == IF h[i].local_name.some THEN h[i].local_name.s ELSE "*"

\* QNameObject::uri: the namespace's URI, None when there is no namespace
uri(h, i) == IF h[i].namespace.kind = "Package" THEN SomeString(h[i].namespace.uri) ELSE NoString

\* Multiname::as_uri
as_uri(n) ==
    LET l == IF n.local_name.some THEN n.local_name.s ELSE "*"
    IN IF n.namespace.kind = "Package" /\ n.namespace.uri # ""
       THEN "{" \o n.namespace.uri \o "}" \o l
       ELSE l

\* QNameObject::set_local_name
set_local_name(h, i, str) == [h EXCEPT ![i].local_name = SomeString(str)]

\* QNameObject::set_namespace
set_namespace(h, i, n) == [h EXCEPT ![i].namespace = n]

\* QNameObject::set_is_qname
set_is_qname(h, i, b) == [h EXCEPT ![i].is_qname = b]

\* QNameObject::init_name
init_name(h, i, n) == [h EXCEPT ![i] = n]

(***************************************************************************)
(* Value::coerce_to_string: [err, s]                                       *)
(***************************************************************************)
coerce_to_string(h, v) ==
    CASE v.tag = "Undefined" -> [err |-> NoError, s |-> "undefined"]
      [] v.tag = "Null" -> [err |-> NoError, s |-> "null"]
      [] v.tag = "String" -> [err |-> NoError, s |-> v.s]
      [] v.tag = "Object" -> [err |-> v.throws, s |-> IF v.throws = NoError THEN v.s ELSE ""]
      [] v.tag = "Namespace" -> [err |-> NoError, s |-> v.ns.uri]
      [] v.tag = "QName" -> [err |-> NoError, s |-> as_uri(name(h, v.id))]

(***************************************************************************)
(* init.  `h` is the heap, `this` the address of the instance under        *)
(* construction, `args` the argument list (positions 1, 2 are Rust's       *)
(* arguments_list[0], arguments_list[1]).  `coerced` lists the argument     *)
(* positions handed to coerce_to_string, in the order of the calls.        *)
(***************************************************************************)

\* resolve_ns_arg without the arm for null: null is coerced like any other value
resolve_ns_arg_null_coerced(h, ns_arg) ==
    CASE ns_arg.tag = "Namespace" ->
            [err |-> NoError, namespace |-> ns_arg.ns, coerced |-> FALSE]
      [] ns_arg.tag = "QName" ->
            LET u == uri(h, ns_arg.id)
            IN [err |-> NoError,
                namespace |-> IF u.some THEN package(u.s, AllVersions) ELSE NoNamespace,
                coerced |-> FALSE]
      [] ns_arg.tag = "Undefined" ->
            [err |-> NoError, namespace |-> package("", root_api_version), coerced |-> FALSE]
      [] OTHER ->
            LET c == coerce_to_string(h, ns_arg)
            IN [err |-> c.err,
                namespace |-> IF c.err = NoError THEN package(c.s, root_api_version)
                              ELSE NoNamespace,
                coerced |-> TRUE]

\* init, the match on ns_arg: [err, namespace, coerced]
resolve_ns_arg(h, ns_arg) ==
    CASE ns_arg.tag = "Namespace" ->
            [err |-> NoError, namespace |-> ns_arg.ns, coerced |-> FALSE]
      [] ns_arg.tag = "QName" ->
            LET u == uri(h, ns_arg.id)
            IN [err |-> NoError,
                namespace |-> IF u.some THEN package(u.s, AllVersions) ELSE NoNamespace,
                coerced |-> FALSE]
      [] ns_arg.tag = "Null" ->
            [err |-> NoError, namespace |-> NoNamespace, coerced |-> FALSE]
      [] ns_arg.tag = "Undefined" ->
            [err |-> NoError, namespace |-> package("", root_api_version), coerced |-> FALSE]
      [] OTHER ->
            LET c == coerce_to_string(h, ns_arg)
            IN [err |-> c.err,
                namespace |-> IF c.err = NoError THEN package(c.s, root_api_version)
                              ELSE NoNamespace,
                coerced |-> TRUE]

\* write_local_arg copying the whole name of a QName, not its local name alone
write_local_arg_copies_name(h, this, local_arg) ==
    IF local_arg.tag = "QName"
    THEN [heap |-> init_name(h, this, name(h, local_arg.id)),
          err |-> NoError, coerced |-> FALSE]
    ELSE LET c == coerce_to_string(h, local_arg)
         IN IF c.err # NoError
            THEN [heap |-> h, err |-> c.err, coerced |-> TRUE]
            ELSE [heap |-> set_local_name(h, this, c.s), err |-> NoError, coerced |-> TRUE]

\* init, the local name of the two-argument form: [heap, err, coerced]
write_local_arg(h, this, local_arg) ==
    IF local_arg.tag = "QName"
    THEN [heap |-> set_local_name(h, this, local_name(h, local_arg.id)),
          err |-> NoError, coerced |-> FALSE]
    ELSE LET c == coerce_to_string(h, local_arg)
         IN IF c.err # NoError
            THEN [heap |-> h, err |-> c.err, coerced |-> TRUE]
            ELSE [heap |-> set_local_name(h, this, c.s), err |-> NoError, coerced |-> TRUE]

\* two_args writing the namespace as soon as it is resolved, before the local
\* name is coerced
two_args_eager_namespace(h, this, args) ==
    LET ns_arg == args[1]
        local_arg == IF args[2].tag = "Undefined" THEN StringValue("") ELSE args[2]
        n == resolve_ns_arg(h, ns_arg)
        h1 == IF n.namespace # NoNamespace
              THEN set_is_qname(set_namespace(h, this, n.namespace), this, TRUE)
              ELSE h
        l == write_local_arg(h1, this, local_arg)
    IN IF n.err # NoError
       THEN [heap |-> h, err |-> n.err, coerced |-> <<1>>,
             namespace |-> NoNamespace, returned |-> TRUE]
       ELSE [heap |-> l.heap, err |-> l.err,
             coerced |-> (IF n.coerced THEN <<1>> ELSE <<>>)
                         \o (IF l.coerced THEN <<2>> ELSE <<>>),
             namespace |-> n.namespace, returned |-> l.err # NoError]

\* two_args with the "*" test of the single-argument form: a local name "*"
\* leaves the instance without namespace
two_args_with_wildcard(h, this, args) ==
    LET ns_arg == args[1]
        local_arg == IF args[2].tag = "Undefined" THEN StringValue("") ELSE args[2]
        n == resolve_ns_arg(h, ns_arg)
        l == write_local_arg(h, this, local_arg)
    IN IF n.err # NoError
       THEN [heap |-> h, err |-> n.err, coerced |-> <<1>>,
             namespace |-> NoNamespace, returned |-> TRUE]
       ELSE [heap |-> l.heap, err |-> l.err,
             coerced |-> (IF n.coerced THEN <<1>> ELSE <<>>)
                         \o (IF l.coerced THEN <<2>> ELSE <<>>),
             namespace |-> IF l.err = NoError /\ local_name(l.heap, this) = "*"
                           THEN NoNamespace ELSE n.namespace,
             returned |-> l.err # NoError]

\* init, the branch taken when arguments_list.get(1) is some:
\* [heap, err, coerced, namespace, returned]; returned = init returned early
two_args(h, this, args) ==
    LET ns_arg == args[1]
        local_arg == IF args[2].tag = "Undefined" THEN StringValue("") ELSE args[2]
        n == resolve_ns_arg(h, ns_arg)
        l == write_local_arg(h, this, local_arg)
    IN IF n.err # NoError
       THEN [heap |-> h, err |-> n.err, coerced |-> <<1>>,
             namespace |-> NoNamespace, returned |-> TRUE]
       ELSE [heap |-> l.heap, err |-> l.err,
             coerced |-> (IF n.coerced THEN <<1>> ELSE <<>>)
                         \o (IF l.coerced THEN <<2>> ELSE <<>>),
             namespace |-> n.namespace, returned |-> l.err # NoError]

\* copy_qname with the copy made in the wrong direction
copy_qname_into_argument(h, this, qname_arg) ==
    [heap |-> init_name(h, qname_arg.id, name(h, this)), err |-> NoError,
     coerced |-> <<>>, namespace |-> NoNamespace, returned |-> TRUE]

\* init, `if let Value::Object(Object::QNameObject(qname_obj)) = qname_arg`:
\* the whole name of the argument is copied and init returns
copy_qname(h, this, qname_arg) ==
    [heap |-> init_name(h, this, name(h, qname_arg.id)), err |-> NoError,
     coerced |-> <<>>, namespace |-> NoNamespace, returned |-> TRUE]

\* local_only without the test for "*"
local_only_without_wildcard(h, this, qname_arg) ==
    LET c == IF qname_arg = Undefined
             THEN [err |-> NoError, s |-> ""]
             ELSE coerce_to_string(h, qname_arg)
        log == IF qname_arg = Undefined THEN <<>> ELSE <<1>>
    IN IF c.err # NoError
       THEN [heap |-> h, err |-> c.err, coerced |-> log,
             namespace |-> NoNamespace, returned |-> TRUE]
       ELSE [heap |-> set_local_name(h, this, c.s), err |-> NoError,
             coerced |-> log, namespace |-> find_public_namespace,
             returned |-> FALSE]

\* init, the local name and namespace of a single argument that is no QName
local_only(h, this, qname_arg) ==
    LET c == IF qname_arg = Undefined
             THEN [err |-> NoError, s |-> ""]
             ELSE coerce_to_string(h, qname_arg)
        log == IF qname_arg = Undefined THEN <<>> ELSE <<1>>
    IN IF c.err # NoError
       THEN [heap |-> h, err |-> c.err, coerced |-> log,
             namespace |-> NoNamespace, returned |-> TRUE]
       ELSE IF c.s # "*"
       THEN [heap |-> set_local_name(h, this, c.s), err |-> NoError,
             coerced |-> log, namespace |-> find_public_namespace,
             returned |-> FALSE]
       ELSE [heap |-> h, err |-> NoError, coerced |-> log,
             namespace |-> NoNamespace, returned |-> FALSE]

\* one_arg without the QName case: a QName argument is coerced like any other
one_arg_coerces_qname(h, this, args) ==
    local_only(h, this, IF Len(args) >= 1 THEN args[1] ELSE Undefined)

\* init, the branch taken with zero or one argument
one_arg(h, this, args) ==
    LET qname_arg == IF Len(args) >= 1 THEN args[1] ELSE Undefined
    IN IF qname_arg.tag = "QName"
       THEN copy_qname(h, this, qname_arg)
       ELSE local_only(h, this, qname_arg)

\* finalize without set_is_qname
finalize_without_flag(h, this, namespace) ==
    IF namespace # NoNamespace THEN set_namespace(h, this, namespace) ELSE h

\* init, the closing `if let Some(namespace) = namespace`
finalize(h, this, namespace) ==
    IF namespace # NoNamespace
    THEN set_is_qname(set_namespace(h, this, namespace), this, TRUE)
    ELSE h

\* init: [heap, err, coerced]
init(h, this, args) ==
    LET r == IF Len(args) >= 2 THEN two_args(h, this, args) ELSE one_arg(h, this, args)
    IN [heap |-> IF r.returned THEN r.heap ELSE finalize(r.heap, this, r.namespace),
        err |-> r.err, coerced |-> r.coerced]

\* classes().qname.construct(activation, args): allocate, then init
\* [heap, err, coerced, ret]
construct(h, args) ==
    LET h1 == Append(h, q_name_allocator)
        r == init(h1, Len(h1), args)
    IN [heap |-> r.heap, err |-> r.err, coerced |-> r.coerced,
        ret |-> IF r.err = NoError THEN QNameObject(Len(h1)) ELSE NoValue]

\* call_handler without the pass-through
call_handler_always_constructs(h, args) == construct(h, args)

\* call_handler with the pass-through taken whatever the number of arguments
call_handler_any_arity(h, args) ==
    IF Len(args) >= 1 /\ args[1].tag = "QName"
    THEN [heap |-> h, err |-> NoError, coerced |-> <<>>, ret |-> args[1]]
    ELSE construct(h, args)

\* call_handler: [heap, err, coerced, ret]
call_handler(h, args) ==
    IF Len(args) = 1 /\ args[1].tag = "QName"
    THEN [heap |-> h, err |-> NoError, coerced |-> <<>>, ret |-> args[1]]
    ELSE construct(h, args)

\* get_local_name
get_local_name(h, this) ==
    IF this.tag = "QName" THEN StringValue(local_name(h, this.id)) ELSE Undefined

\* get_uri returning undefined, not null, for a QName without URI
get_uri_undefined_without_uri(h, this) ==
    IF this.tag = "QName"
    THEN LET u == uri(h, this.id) IN IF u.some THEN StringValue(u.s) ELSE Undefined
    ELSE Undefined

\* get_uri
get_uri(h, this) ==
    IF this.tag = "QName"
    THEN LET u == uri(h, this.id) IN IF u.some THEN StringValue(u.s) ELSE Null
    ELSE Undefined

\* to_string
to_string(h, this) ==
    IF this.tag = "QName" THEN StringValue(as_uri(name(h, this.id))) ELSE Undefined

(***************************************************************************)
(* The state machine.                                                      *)
(*   heap        the QName objects allocated so far, by address            *)
(*   constructed the addresses whose construction completed: the QName     *)
(*               objects scripts hold references to                        *)
(*   last        the latest operation: its arguments, receiver and outcome *)
(***************************************************************************)
VARIABLES heap, constructed, last

vars == <<heap, constructed, last>>

\* The QName objects scripts hold
QNames == {QNameObject(i) : i \in constructed}

\* The values scripts pass as the namespace argument of the two-argument form
NsArgs ==
    {Undefined, Null, StringValue("x"), ScriptObject("x"), ThrowingObject("e1"),
     NamespaceObject(package("x", OtherVersion))} \cup QNames

\* The values scripts pass as the local-name argument of the two-argument form
LocalArgs ==
    {Undefined, StringValue("x"), StringValue("*"), ScriptObject("*"),
     ThrowingObject("e2")} \cup QNames

\* The values scripts pass as the single argument
Values == NsArgs \cup LocalArgs

ArgLists ==
    {<<>>} \cup {<<a>> : a \in Values} \cup {<<a, b>> : a \in NsArgs, b \in LocalArgs}

\* The receivers of the accessors: objects
Receivers == {ScriptObject("*"), NamespaceObject(package("x", OtherVersion))} \cup QNames

Record(op, args, this, r) ==
    [op |-> op, args |-> args, this |-> this, ret |-> r.ret, err |-> r.err,
     coerced |-> r.coerced]

Init ==
    /\ heap = <<>>
    /\ constructed = {}
    /\ last = Record("none", <<>>, Undefined,
                     [ret |-> NoValue, err |-> NoError, coerced |-> <<>>])

\* new QName(args...)
Construct(args) ==
    /\ Len(heap) < MaxObjs
    /\ LET r == construct(heap, args)
       IN /\ heap' = r.heap
          /\ constructed' = IF r.err = NoError THEN constructed \cup {r.ret.id}
                            ELSE constructed
          /\ last' = Record("construct", args, Undefined, r)

\* QName(args...)
Call(args) ==
    /\ (Len(args) = 1 /\ args[1].tag = "QName") \/ Len(heap) < MaxObjs
    /\ LET r == call_handler(heap, args)
       IN /\ heap' = r.heap
          /\ constructed' = IF r.err = NoError THEN constructed \cup {r.ret.id}
                            ELSE constructed
          /\ last' = Record("call", args, Undefined, r)

\* this.localName
GetLocalName(this) ==
    /\ last' = Record("get_local_name", <<>>, this,
                      [ret |-> get_local_name(heap, this), err |-> NoError, coerced |-> <<>>])
    /\ UNCHANGED <<heap, constructed>>

\* this.uri
GetUri(this) ==
    /\ last' = Record("get_uri", <<>>, this,
                      [ret |-> get_uri(heap, this), err |-> NoError, coerced |-> <<>>])
    /\ UNCHANGED <<heap, constructed>>

\* this.toString()
ToString(this) ==
    /\ last' = Record("to_string", <<>>, this,
                      [ret |-> to_string(heap, this), err |-> NoError, coerced |-> <<>>])
    /\ UNCHANGED <<heap, constructed>>

Next ==
    \/ \E args \in ArgLists : Construct(args)
    \/ \E args \in ArgLists : Call(args)
    \/ \E this \in Receivers : GetLocalName(this)
    \/ \E this \in Receivers : GetUri(this)
    \/ \E this \in Receivers : ToString(this)

Spec == Init /\ [][Next]_vars

(***************************************************************************)
(* Properties.                                                             *)
(***************************************************************************)

\* the latest operation was the function-call shape on exactly one QName
IsPassThrough(l) == l.op = "call" /\ Len(l.args) = 1 /\ l.args[1].tag = "QName"

\* the latest operation built an instance with the two-argument form
IsTwoArgConstruct(l) == l.op = "construct" /\ Len(l.args) = 2 /\ l.err = NoError

\* C1: in every QName instance whose construction completed, is_qname is
\* true exactly when the namespace is present.
C1_QualifiedIffNamespace ==
    \A i \in constructed : heap[i].is_qname <=> (heap[i].namespace # NoNamespace)

\* C1 witness: a qualified and an unqualified instance have both been built.
C1_Witness ==
    \E i, j \in constructed :
        /\ heap[i].is_qname /\ heap[i].namespace # NoNamespace
        /\ ~heap[j].is_qname /\ heap[j].namespace = NoNamespace

\* C2: no operation changes an instance that already exists: every step
\* leaves every allocated address as it was, and a constructed instance stays
\* constructed; a construction writes to the new address only.
C2_ConstructedNeverChange ==
    [][/\ Len(heap') >= Len(heap)
       /\ \A i \in 1..Len(heap) : heap'[i] = heap[i]
       /\ constructed \subseteq constructed']_vars

\* C2 witness: an instance was built from an existing QName passed as both
\* the namespace and the local-name argument.
C2_Witness ==
    /\ last.op = "construct" /\ Len(last.args) = 2 /\ last.err = NoError
    /\ last.args[1].tag = "QName" /\ last.args[2].tag = "QName"
    /\ last.ret.id \notin {last.args[1].id, last.args[2].id}

\* C3: call with exactly one QName argument returns that argument itself,
\* without an error, allocating nothing and writing nothing.
C3_CallReturnsSameInstance ==
    [][IsPassThrough(last') =>
          /\ last'.ret = last'.args[1]
          /\ last'.err = NoError
          /\ last'.coerced = <<>>
          /\ heap' = heap
          /\ constructed' = constructed]_vars

\* C3 witness: call was applied to an existing QName and gave it back.
C3_Witness ==
    /\ IsPassThrough(last)
    /\ last.ret = last.args[1]
    /\ last.ret.id \in constructed

\* C4: for every argument list that is not exactly one QName, call does
\* what construct does with the same arguments: the same heap, the same new
\* instance at a fresh address, the same error.
C4_CallDelegatesToConstruct ==
    [][(last'.op = "call" /\ ~IsPassThrough(last')) =>
          LET r == construct(heap, last'.args)
          IN /\ heap' = r.heap
             /\ last'.ret = r.ret
             /\ last'.err = r.err
             /\ last'.coerced = r.coerced
             /\ r.err = NoError =>
                   /\ last'.ret.tag = "QName"
                   /\ last'.ret.id \notin 1..Len(heap)
                   /\ last'.ret.id \in constructed']_vars

\* C4 witness: call with two arguments, the first a QName, built a new
\* instance.
C4_Witness ==
    /\ last.op = "call" /\ Len(last.args) = 2 /\ last.err = NoError
    /\ last.args[1].tag = "QName"
    /\ last.ret.tag = "QName" /\ last.ret.id # last.args[1].id

\* C5: construct with exactly one QName argument Q gives a new instance at
\* another address whose name equals Q's field by field, coercing nothing,
\* and leaves Q as it was.
C5_ConstructCopiesQName ==
    [][(last'.op = "construct" /\ Len(last'.args) = 1 /\ last'.args[1].tag = "QName") =>
          LET q == last'.args[1].id
              n == Len(heap) + 1
          IN /\ last'.err = NoError
             /\ last'.ret = QNameObject(n)
             /\ n # q
             /\ Len(heap') = n
             /\ heap'[n].local_name = heap[q].local_name
             /\ heap'[n].namespace = heap[q].namespace
             /\ heap'[n].is_qname = heap[q].is_qname
             /\ heap'[q] = heap[q]
             /\ last'.coerced = <<>>]_vars

\* C5 witness: an unqualified QName with a stored local name was copied, and
\* the copy is unqualified too.
C5_Witness ==
    /\ last.op = "construct" /\ Len(last.args) = 1 /\ last.args[1].tag = "QName"
    /\ last.ret.tag = "QName" /\ last.ret.id # last.args[1].id
    /\ ~heap[last.args[1].id].is_qname
    /\ heap[last.args[1].id].local_name.some
    /\ heap[last.ret.id] = heap[last.args[1].id]

\* C6: construct with no argument, or with one argument that is no QName:
\* the computed local name is "" for an absent or undefined argument and the
\* argument's string coercion otherwise; when it is "*" the instance is
\* unqualified and no local name is written; otherwise it is stored, the
\* namespace is the public namespace and is_qname is true.
C6_SingleArgumentForm ==
    (/\ last.op = "construct" /\ Len(last.args) <= 1 /\ last.err = NoError
     /\ Len(last.args) = 1 => last.args[1].tag # "QName") =>
        LET computed == IF Len(last.args) = 0 \/ last.args[1].tag = "Undefined"
                        THEN ""
                        ELSE coerce_to_string(heap, last.args[1]).s
            new == heap[last.ret.id]
        IN /\ computed = "*" =>
                 /\ new.namespace = NoNamespace
                 /\ ~new.is_qname
                 /\ new.local_name = q_name_allocator.local_name
           /\ computed # "*" =>
                 /\ new.local_name = SomeString(computed)
                 /\ new.namespace = find_public_namespace
                 /\ new.is_qname
           /\ Len(last.args) = 0 =>
                 new = [local_name |-> SomeString(""),
                        namespace |-> package("", root_api_version),
                        is_qname |-> TRUE]

\* C6 witness: an object that is no string but coerces to "*" gave an
\* unqualified instance.
C6_Witness ==
    /\ last.op = "construct" /\ last.args = <<ScriptObject("*")>>
    /\ last.ret.tag = "QName"
    /\ ~heap[last.ret.id].is_qname
    /\ ~heap[last.ret.id].local_name.some

\* C7: in the two-argument form the namespace of the new instance follows
\* from the first argument: a Namespace object gives its namespace, version
\* tag included; a QName gives the Package namespace of its URI at
\* AllVersions, or none when it has no URI; null gives none; undefined gives
\* the Package namespace "" at the root version; any other value gives the
\* Package namespace of its string coercion at the root version.
C7_NamespaceFromFirstArgument ==
    IsTwoArgConstruct(last) =>
        LET a == last.args[1]
            new == heap[last.ret.id]
            expected ==
                CASE a.tag = "Namespace" -> a.ns
                  [] a.tag = "QName" ->
                        IF heap[a.id].namespace = NoNamespace
                        THEN NoNamespace
                        ELSE [kind |-> "Package", uri |-> heap[a.id].namespace.uri,
                              version |-> AllVersions]
                  [] a.tag = "Null" -> NoNamespace
                  [] a.tag = "Undefined" ->
                        [kind |-> "Package", uri |-> "", version |-> root_api_version]
                  [] OTHER ->
                        [kind |-> "Package", uri |-> a.s, version |-> root_api_version]
        IN /\ new.namespace = expected
           /\ new.is_qname = (expected # NoNamespace)
           /\ last.args = <<Null, StringValue("x")>> =>
                 new = [local_name |-> SomeString("x"), namespace |-> NoNamespace,
                        is_qname |-> FALSE]
           /\ last.args = <<Undefined, StringValue("x")>> =>
                 new = [local_name |-> SomeString("x"),
                        namespace |-> package("", root_api_version),
                        is_qname |-> TRUE]

\* C7 witness: the first argument was a QName whose namespace carries another
\* version tag, and the new instance has that URI at AllVersions.
C7_Witness ==
    /\ IsTwoArgConstruct(last)
    /\ last.args[1].tag = "QName"
    /\ heap[last.args[1].id].namespace.version = OtherVersion
    /\ heap[last.ret.id].namespace =
          package(heap[last.args[1].id].namespace.uri, AllVersions)

\* C8: in the two-argument form the local name of the new instance follows
\* from the second argument alone: the local name of a QName, "" for
\* undefined, the string coercion otherwise; a QName as second argument
\* gives the instance its local name given as a string would give.
C8_LocalNameFromSecondArgument ==
    [][IsTwoArgConstruct(last') =>
          LET b == last'.args[2]
              new == heap'[last'.ret.id]
              expected ==
                  CASE b.tag = "QName" ->
                          IF heap[b.id].local_name.some
                          THEN heap[b.id].local_name.s ELSE "*"
                    [] b.tag = "Undefined" -> ""
                    [] OTHER -> b.s
          IN /\ new.local_name = SomeString(expected)
             /\ b.tag = "QName" =>
                   heap' = construct(heap, <<last'.args[1], StringValue(expected)>>).heap]_vars

\* C8 witness: the second argument was a qualified QName, the first null, and
\* the new instance is unqualified with that QName's local name.
C8_Witness ==
    /\ IsTwoArgConstruct(last)
    /\ last.args[1] = Null /\ last.args[2].tag = "QName"
    /\ heap[last.args[2].id].is_qname
    /\ ~heap[last.ret.id].is_qname
    /\ heap[last.ret.id].namespace = NoNamespace
    /\ heap[last.ret.id].local_name = heap[last.args[2].id].local_name

\* C9: the arguments are coerced in order, each at most once, and none after
\* a coercion failed; the error of a failed coercion is the error returned;
\* when a construction returns an error the instance under construction is
\* as allocated and no instance is returned.
C9_CoercionErrorPropagates ==
    last.op \in {"construct", "call"} =>
        LET log == last.coerced
        IN /\ \A j, k \in 1..Len(log) : j < k => log[j] < log[k]
           /\ \A k \in 1..Len(log) :
                 /\ log[k] \in 1..Len(last.args)
                 /\ k < Len(log) => last.args[log[k]].throws = NoError
                 /\ k = Len(log) => last.err = last.args[log[k]].throws
           /\ log = <<>> => last.err = NoError
           /\ last.err # NoError =>
                 /\ last.ret = NoValue
                 /\ heap[Len(heap)] = q_name_allocator
                 /\ Len(heap) \notin constructed

\* C9 witness: the namespace argument was coerced, then the coercion of the
\* local-name argument failed and its error came back.
C9_Witness ==
    /\ last.op = "construct"
    /\ last.args = <<StringValue("x"), ThrowingObject("e2")>>
    /\ last.coerced = <<1, 2>>
    /\ last.err = "e2"
    /\ heap[Len(heap)] = q_name_allocator

\* C10: an accessor never fails and never writes; on a receiver that is no
\* QName it returns undefined; on a QName, get uri returns the URI, or null
\* when there is none, and get local_name returns a string.
C10_Accessors ==
    [][last'.op \in {"get_local_name", "get_uri", "to_string"} =>
          /\ heap' = heap
          /\ constructed' = constructed
          /\ last'.err = NoError
          /\ last'.this.tag # "QName" => last'.ret = Undefined
          /\ (last'.this.tag = "QName" /\ last'.op = "get_uri") =>
                IF heap[last'.this.id].namespace = NoNamespace
                THEN last'.ret = Null
                ELSE last'.ret = StringValue(heap[last'.this.id].namespace.uri)
          /\ (last'.this.tag = "QName" /\ last'.op = "get_local_name") =>
                last'.ret.tag = "String"]_vars

\* C10 witness: get uri on an unqualified QName returned null.
C10_Witness ==
    /\ last.op = "get_uri" /\ last.this.tag = "QName"
    /\ heap[last.this.id].namespace = NoNamespace
    /\ last.ret = Null

\* the is_qname of the instance construct(h, args) builds
is_qname_of(h, args) == construct(h, args).heap[Len(h) + 1].is_qname

\* what the second argument of the two-argument form gives as local name
LocalNameOf(h, b) ==
    CASE b.tag = "QName" -> IF h[b.id].local_name.some THEN h[b.id].local_name.s ELSE "*"
      [] b.tag = "Undefined" -> ""
      [] OTHER -> b.s

\* C11, the part that holds of every argument: in the two-argument form a
\* local name "*" is stored as it is and whether the instance is qualified
\* follows from the first argument alone, so construct(undefined, "*") is
\* qualified with local name "*" in the public namespace; construct("*") is
\* unqualified.
C11_Common ==
    /\ IsTwoArgConstruct(last') =>
          LET a == last'.args[1]
              b == last'.args[2]
              new == heap'[last'.ret.id]
          IN /\ new.local_name = SomeString(LocalNameOf(heap, b))
             /\ new.is_qname = is_qname_of(heap, <<a, StringValue("x")>>)
             /\ (a = Undefined /\ LocalNameOf(heap, b) = "*") =>
                   new = [local_name |-> SomeString("*"),
                          namespace |-> find_public_namespace,
                          is_qname |-> TRUE]
    /\ (last'.op = "construct" /\ last'.args = <<StringValue("*")>>) =>
          /\ last'.err = NoError
          /\ ~heap'[last'.ret.id].is_qname

\* C11 as amended: the above, and for every x that is not a QName object and
\* whose string coercion succeeds, construct(x) and construct(undefined, x)
\* agree on is_qname exactly when x does not coerce to "*".
C11_WildcardOnlyInSingleArgumentForm ==
    [][/\ C11_Common
       /\ (IsTwoArgConstruct(last') /\ last'.args[1] = Undefined
           /\ last'.args[2].tag # "QName") =>
             LET x == last'.args[2]
                 one == construct(heap, <<x>>)
             IN /\ one.err = NoError
                /\ (is_qname_of(heap, <<x>>) = heap'[last'.ret.id].is_qname)
                      <=> (coerce_to_string(heap, x).s # "*")]_vars

\* C11 witness: construct(undefined, "*") gave a qualified instance with
\* local name "*" in the public namespace.
C11_Witness ==
    /\ last.op = "construct" /\ last.args = <<Undefined, StringValue("*")>>
    /\ last.err = NoError
    /\ heap[last.ret.id] = [local_name |-> SomeString("*"),
                            namespace |-> find_public_namespace,
                            is_qname |-> TRUE]

\* C11 as stated: construct(x) and construct(undefined, x) agree on is_qname
\* exactly when x does not coerce to "*", for every x both forms accept.
C11_AsStated ==
    [][/\ C11_Common
       /\ (IsTwoArgConstruct(last') /\ last'.args[1] = Undefined) =>
             LET x == last'.args[2]
             IN construct(heap, <<x>>).err = NoError =>
                   ((is_qname_of(heap, <<x>>) = heap'[last'.ret.id].is_qname)
                       <=> (coerce_to_string(heap, x).s # "*"))]_vars

====
